---- MODULE Spec2Model ----
(***************************************************************************)
(* State-machine model of WinLLPlay (Win/WinLLPlay/src/main.cpp): decoder  *)
(* selection with hardware fallback, the read / submit / drain loop, the   *)
(* dimension-change handling, the NV12 fast path, the I420 conversion      *)
(* path and the pacing gate.  Library calls (FFmpeg, SDL) are modelled by  *)
(* their documented results, chosen nondeterministically.                  *)
(***************************************************************************)
EXTENDS Integers, Sequences, FiniteSets, TLC

\* ---------------------------------------------------------------- bounds
MaxTime == 40000        \* the model clock stops advancing here (microseconds)
MaxReady == 2           \* pictures the engine may hold ready at once

\* ------------------------------------------------------- program constants
UsPerSec == 1000000     \* 1e6 in target_interval_us
UsPerMs == 1000         \* /1000.0 in wait_ms
WaitCapMs == 10         \* wait_ms<10
DefaultW == 1920
DefaultH == 1080

\* ------------------------------------------------------------ input sets
Deltas == {15000, 20000}                       \* clock advances
TargetFpsSet == {0, 50}                       \* --fps N
Dims == {<<1920, 1080>>, <<1280, 720>>}       \* picture sizes of the stream
HostFormats == {"NV12", "YUV420P"}
AllFormats == HostFormats \cup {"CUDA"}
StreamIndexes == {0, 1}

NoTex == [w |-> 0, h |-> 0]
NoSws == [w |-> 0, h |-> 0, fmt |-> "NONE"]
NoFrame == [w |-> 0, h |-> 0, format |-> "NONE"]
NoBuf == [w |-> 0, h |-> 0, buf |-> FALSE]
NoPkt == [stream_index |-> -1]

VARIABLES
  pc, exit_code,
  prefer_gpu, target_fps, drop_when_ahead,
  vstream, cuvid, codec, want_cuda, hw_dev, thread_count,
  W, H, texNV12, texI420, sws, yuv420p,
  pkt, frame, sw_frame, src, src_fmt, rendered,
  running, engReady, now, last_present_us,
  wait_ms, slept_ms,
  gates, gateDropped, presented, everPresented, resized, uses,
  drainEnd, failed,
  acquired, released, idle

cfgVars == <<prefer_gpu, target_fps, drop_when_ahead>>
decVars == <<vstream, cuvid, codec, want_cuda, hw_dev, thread_count>>
surfVars == <<W, H, texNV12, texI420, sws, yuv420p>>
picVars == <<frame, sw_frame, src, src_fmt, rendered, resized>>
gateVars == <<wait_ms, slept_ms, gates, gateDropped, presented, failed>>
resVars == <<acquired, released>>
vars == <<pc, exit_code, cfgVars, decVars, surfVars, pkt, picVars,
          running, engReady, now, last_present_us, gateVars,
          everPresented, drainEnd, uses, resVars, idle>>

SetupPcs == {"parse_args", "alloc_fmt", "open_input", "find_stream_info",
             "find_best_stream", "decoder_choice", "alloc_codec_ctx",
             "params_to_ctx", "hwdevice", "open2", "sdl_init",
             "create_window", "create_renderer", "alloc_buffers", "start"}
DrainPcs == {"receive", "dimcheck", "realize", "fast", "fast_update",
             "fast_gate", "fast_present", "slow", "slow_sws", "scale",
             "slow_gate", "slow_present", "unref"}
StreamingPcs == {"loop", "poll", "read", "filter", "send"} \cup DrainPcs

\* driver state of the pipeline
DriverState ==
  IF pc \in SetupPcs THEN "OPENING"
  ELSE IF pc \in StreamingPcs THEN "STREAMING"
  ELSE IF pc = "cleanup" THEN "STOPPING"
  ELSE "CLOSED"

\* the state at the entry of main when the steady clock reads t
InitAt(t) ==
  /\ pc = "parse_args"
  /\ exit_code = -1
  /\ prefer_gpu \in BOOLEAN
  /\ target_fps \in TargetFpsSet
  /\ drop_when_ahead \in BOOLEAN
  /\ vstream = -1
  /\ cuvid = FALSE
  /\ codec = "none"
  /\ want_cuda = FALSE
  /\ hw_dev = FALSE
  /\ thread_count = 0
  /\ W = 0 /\ H = 0
  /\ texNV12 = NoTex /\ texI420 = NoTex
  /\ sws = NoSws
  /\ yuv420p = NoBuf
  /\ pkt = NoPkt
  /\ frame = NoFrame /\ sw_frame = FALSE
  /\ src = "frame" /\ src_fmt = "NONE"
  /\ rendered = FALSE
  /\ resized = FALSE
  /\ running = FALSE
  /\ engReady = 0
  /\ now = t
  /\ last_present_us = 0
  /\ wait_ms = -1 /\ slept_ms = 0
  /\ gates = 0 /\ gateDropped = FALSE /\ presented = FALSE
  /\ everPresented = FALSE
  /\ uses = 0
  /\ drainEnd = "none"
  /\ failed = "none"
  /\ acquired = <<>>
  /\ released = <<>>
  /\ idle = FALSE

Init == InitAt(0)

\* return 1 from main during setup
Fatal ==
  /\ pc' = "exited"
  /\ exit_code' = 1

Goto(p) == pc' = p /\ UNCHANGED exit_code

\* ------------------------------------------------------------------ setup
ParseArgs ==
  /\ pc = "parse_args"
  /\ \E ok \in BOOLEAN :
       IF ok THEN Goto("alloc_fmt")
       ELSE pc' = "exited" /\ exit_code' = 0
  /\ UNCHANGED <<cfgVars, idle, resVars, decVars, surfVars, pkt, picVars, running, engReady,
                 now, last_present_us, gateVars, everPresented, drainEnd, uses>>

\* the outcome of one fallible setup call that changes no modelled state
SetupCall(to) ==
  /\ \E ok \in BOOLEAN : IF ok THEN Goto(to) ELSE Fatal
  /\ UNCHANGED <<cfgVars, idle, resVars, decVars, surfVars, pkt, picVars, running, engReady,
                 now, last_present_us, gateVars, everPresented, drainEnd, uses>>

\* a fallible setup call that on success hands out the resource res
SetupAcquire(to, res) ==
  /\ \E ok \in BOOLEAN :
       IF ok THEN Goto(to) /\ acquired' = Append(acquired, res)
       ELSE Fatal /\ UNCHANGED acquired
  /\ UNCHANGED <<cfgVars, idle, released, decVars, surfVars, pkt, picVars, running,
                 engReady, now, last_present_us, gateVars, everPresented,
                 drainEnd, uses>>

AllocFmt ==
  /\ pc = "alloc_fmt"
  /\ SetupAcquire("open_input", "fmt")
OpenInput ==
  /\ pc = "open_input"
  /\ SetupCall("find_stream_info")
FindStreamInfo ==
  /\ pc = "find_stream_info"
  /\ SetupCall("find_best_stream")

FindBestStream ==
  /\ pc = "find_best_stream"
  /\ \E r \in {-1, 0} :
       /\ vstream' = r
       /\ IF r < 0 THEN Fatal ELSE Goto("decoder_choice")
  /\ UNCHANGED <<cfgVars, idle, resVars, cuvid, codec, want_cuda, hw_dev, thread_count,
                 surfVars, pkt, picVars, running, engReady, now,
                 last_present_us, gateVars, everPresented, drainEnd, uses>>

\* the codec chosen by lines 104-115: "none" when no decoder is found
ChosenCodec(wantCuda, cuvidFound, swFound) ==
  IF wantCuda /\ cuvidFound THEN "h264_cuvid"
  ELSE IF swFound THEN "h264"
  ELSE "none"

DecoderChoice ==
  /\ pc = "decoder_choice"
  /\ want_cuda' = prefer_gpu
  /\ \E cuvidFound \in BOOLEAN, swFound \in BOOLEAN :
       /\ cuvid' = (prefer_gpu /\ cuvidFound)
       /\ codec' = ChosenCodec(prefer_gpu, cuvidFound, swFound)
       /\ IF codec' = "none" THEN Fatal ELSE Goto("alloc_codec_ctx")
  /\ UNCHANGED <<cfgVars, idle, resVars, vstream, hw_dev, thread_count, surfVars, pkt,
                 picVars, running, engReady, now, last_present_us, gateVars,
                 everPresented, drainEnd, uses>>

AllocCodecCtx ==
  /\ pc = "alloc_codec_ctx"
  /\ SetupAcquire("params_to_ctx", "dec")
ParamsToCtx ==
  /\ pc = "params_to_ctx"
  /\ SetupCall("hwdevice")

\* thread_count after lines 147-149 (0 = the library default)
ThreadCountFor(wantCuda, old) == IF ~wantCuda THEN 1 ELSE old

HwDevice ==
  /\ pc = "hwdevice"
  /\ IF want_cuda
       THEN \E created \in BOOLEAN :
              /\ hw_dev' = created
              /\ want_cuda' = created
              /\ acquired' = IF created THEN Append(acquired, "hw_dev")
                             ELSE acquired
       ELSE UNCHANGED <<hw_dev, want_cuda, acquired>>
  /\ thread_count' = ThreadCountFor(want_cuda', thread_count)
  /\ Goto("open2")
  /\ UNCHANGED <<cfgVars, idle, released, vstream, cuvid, codec, surfVars, pkt, picVars,
                 running, engReady, now, last_present_us, gateVars,
                 everPresented, drainEnd, uses>>

Open2 ==
  /\ pc = "open2"
  /\ SetupCall("sdl_init")
SdlInit ==
  /\ pc = "sdl_init"
  /\ SetupCall("create_window")

CreateWindow ==
  /\ pc = "create_window"
  /\ \E d \in Dims \cup {<<0, 0>>} :
       /\ W' = IF d[1] > 0 THEN d[1] ELSE DefaultW
       /\ H' = IF d[2] > 0 THEN d[2] ELSE DefaultH
  /\ \E ok \in BOOLEAN :
       IF ok THEN Goto("create_renderer") /\ acquired' = Append(acquired, "win")
       ELSE Fatal /\ UNCHANGED acquired
  /\ UNCHANGED <<cfgVars, idle, released, decVars, texNV12, texI420, sws, yuv420p, pkt,
                 picVars, running, engReady, now, last_present_us, gateVars,
                 everPresented, drainEnd, uses>>

CreateRenderer ==
  /\ pc = "create_renderer"
  /\ SetupAcquire("alloc_buffers", "ren")

\* alloc_yuv420p: the frame after av_frame_get_buffer (unreferenced on failure)
AllocYuv420p(w, h, ok) ==
  IF ok THEN [w |-> w, h |-> h, buf |-> TRUE] ELSE NoBuf

\* lines 195-198: the four buffers in the order of their allocation
Buffers == <<"pkt", "frame", "sw_frame", "yuv420p">>

AllocBuffers ==
  /\ pc = "alloc_buffers"
  /\ \E okAlloc \in BOOLEAN, okBuf \in BOOLEAN :
       IF okAlloc
         THEN /\ yuv420p' = AllocYuv420p(W, H, okBuf)
              /\ acquired' = acquired \o Buffers
              /\ IF okBuf THEN Goto("start") ELSE Fatal
         ELSE /\ Fatal
              /\ UNCHANGED <<yuv420p, acquired>>
  /\ UNCHANGED <<cfgVars, idle, released, decVars, W, H, texNV12, texI420, sws, pkt, picVars,
                 running, engReady, now, last_present_us, gateVars,
                 everPresented, drainEnd, uses>>

Start ==
  /\ pc = "start"
  /\ running' = TRUE
  /\ last_present_us' = now
  /\ Goto("loop")
  /\ UNCHANGED <<cfgVars, idle, resVars, decVars, surfVars, pkt, picVars, engReady, now,
                 gateVars, everPresented, drainEnd, uses>>

\* -------------------------------------------------------------- the clock
\* steady_clock advances between any two steps of the streaming loop
Tick ==
  /\ pc \in StreamingPcs
  /\ \E d \in Deltas :
       /\ now + d <= MaxTime
       /\ now' = now + d
  /\ UNCHANGED <<pc, exit_code, cfgVars, idle, resVars, decVars, surfVars, pkt, picVars,
                 running, engReady, last_present_us, gateVars, everPresented, drainEnd,
                 uses>>

\* SDL_Delay(ms): the clock after the sleep
DelayedNow(t, ms) == t + ms * UsPerMs

\* SDL_Delay(1) on an idle read: the sleep lasts at least 1 ms and as long as
\* the scheduler makes it; d is the time that really passed
IdleNow(t, d) == IF t + d <= MaxTime THEN t + d ELSE t

\* ------------------------------------------------------ read/submit/drain
\* variant: the loop test does not look at the flag
LoopTargetForever(r) == "poll"

\* while (running), line 220
LoopTarget(r) == IF r THEN "poll" ELSE "cleanup"

LoopCheck ==
  /\ pc = "loop"
  /\ Goto(LoopTarget(running))
  /\ UNCHANGED <<cfgVars, idle, resVars, decVars, surfVars, pkt, picVars, running, engReady,
                 now, last_present_us, gateVars, everPresented, drainEnd, uses>>

PollEvents ==
  /\ pc = "poll"
  /\ \E ev \in {"none", "SDL_QUIT", "SDLK_q", "other"} :
       running' = IF ev \in {"SDL_QUIT", "SDLK_q"} THEN FALSE ELSE running
  /\ Goto("read")
  /\ UNCHANGED <<cfgVars, idle, resVars, decVars, surfVars, pkt, picVars, engReady, now,
                 last_present_us, gateVars, everPresented, drainEnd, uses>>

\* variant: a failed read ends the run
RunningAfterReadEnds(r, got) == r /\ got

\* line 227: whether av_read_frame delivered or not, running is not touched
RunningAfterRead(r, got) == r

ReadFrame ==
  /\ pc = "read"
  /\ \/ /\ \E d \in Deltas : now' = IdleNow(now, d)     \* av_read_frame < 0
        /\ idle' = TRUE                                   \* SDL_Delay(1)
        /\ running' = RunningAfterRead(running, FALSE)
        /\ Goto("loop")
        /\ UNCHANGED <<pkt, uses>>
     \/ \E i \in StreamIndexes :
          /\ pkt' = [stream_index |-> i]
          /\ uses' = 0
          /\ idle' = FALSE
          /\ running' = RunningAfterRead(running, TRUE)
          /\ Goto("filter")
          /\ UNCHANGED now
  /\ UNCHANGED <<cfgVars, resVars, decVars, surfVars, picVars, engReady,
                 last_present_us, gateVars, everPresented, drainEnd>>

Filter ==
  /\ pc = "filter"
  /\ IF pkt.stream_index # vstream
       THEN /\ pkt' = NoPkt
            /\ uses' = uses + 1
            /\ Goto("loop")
       ELSE /\ Goto("send")
            /\ UNCHANGED <<pkt, uses>>
  /\ UNCHANGED <<cfgVars, idle, resVars, decVars, surfVars, picVars, running, engReady, now,
                 last_present_us, gateVars, everPresented, drainEnd>>

\* variant: a rejected packet is not unreferenced
PktAfterSendLeak(p, accepted) == IF accepted THEN NoPkt ELSE p

\* the packet held after avcodec_send_packet returned (both branches unref)
PktAfterSend(p, accepted) == NoPkt

\* variant: a rejected submission ends the run
AfterRejectStop == "cleanup"

\* where the driver goes after a rejected submission (continue, line 230)
AfterReject == "loop"

SendPacket ==
  /\ pc = "send"
  /\ uses' = uses + 1
  /\ \E accepted \in BOOLEAN :
       /\ pkt' = PktAfterSend(pkt, accepted)
       /\ IF accepted
            THEN /\ \E n \in engReady .. MaxReady : engReady' = n
                 /\ drainEnd' = "none"
                 /\ Goto("receive")
            ELSE /\ Goto(AfterReject)
                 /\ UNCHANGED <<engReady, drainEnd>>
  /\ UNCHANGED <<cfgVars, idle, resVars, decVars, surfVars, picVars, running, now,
                 last_present_us, gateVars, everPresented>>

\* pixel formats the opened engine can hand out: accelerator-resident
\* pictures need the device context and get_hw_format of lines 138-140
EngineFormats == IF hw_dev THEN AllFormats ELSE HostFormats

ResetGate ==
  /\ wait_ms' = -1
  /\ slept_ms' = 0
  /\ gates' = 0
  /\ gateDropped' = FALSE
  /\ presented' = FALSE
  /\ failed' = "none"

\* src, src_fmt and rendered are locals of one drain iteration
DropLocals ==
  /\ src' = "frame"
  /\ src_fmt' = "NONE"
  /\ rendered' = FALSE
  /\ resized' = FALSE

ReceiveFrame ==
  /\ pc = "receive"
  /\ ResetGate
  /\ \/ /\ engReady > 0                    \* a picture
        /\ engReady' = engReady - 1
        /\ \E d \in Dims, f \in EngineFormats :
             frame' = [w |-> d[1], h |-> d[2], format |-> f]
        /\ Goto("dimcheck")
        /\ UNCHANGED drainEnd
     \/ /\ engReady = 0                    \* EAGAIN or AVERROR_EOF
        /\ frame' = NoFrame
        /\ drainEnd' = "empty"
        /\ Goto("loop")
        /\ UNCHANGED engReady
     \/ /\ frame' = NoFrame                \* ret < 0
        /\ drainEnd' = "fault"
        /\ Goto("loop")
        /\ UNCHANGED engReady
  /\ UNCHANGED <<cfgVars, idle, resVars, decVars, surfVars, pkt, sw_frame, src, src_fmt,
                 rendered, resized, running, now, last_present_us,
                 everPresented, uses>>

\* ------------------------------------------------------- dimension change
\* the test of line 239
DimsChanged(w, h, oldW, oldH) == (w # oldW \/ h # oldH) /\ w > 0 /\ h > 0

\* alloc_tex_nv12 / alloc_tex_i420: the texture after destroy + create
AllocTex(w, h, ok) == IF ok THEN [w |-> w, h |-> h] ELSE NoTex

\* variant: the existing texture is kept at its old size
ReallocTexKept(tex, w, h, ok) == tex

\* lines 241-242: only an existing texture is recreated
ReallocTex(tex, w, h, ok) == IF tex # NoTex THEN AllocTex(w, h, ok) ELSE tex

\* variant: the cached context survives the dimension change
SwsAfterDimChangeKept(ctx) == ctx

\* line 244: the cached conversion context after a dimension change
SwsAfterDimChange(ctx) == NoSws

DimChange ==
  /\ pc = "dimcheck"
  /\ IF DimsChanged(frame.w, frame.h, W, H)
       THEN /\ W' = frame.w
            /\ H' = frame.h
            /\ \E ok \in BOOLEAN : texNV12' = ReallocTex(texNV12, frame.w, frame.h, ok)
            /\ \E ok \in BOOLEAN : texI420' = ReallocTex(texI420, frame.w, frame.h, ok)
            /\ \E ok \in BOOLEAN : yuv420p' = AllocYuv420p(frame.w, frame.h, ok)
            /\ sws' = SwsAfterDimChange(sws)
            /\ resized' = TRUE
       ELSE UNCHANGED <<surfVars, resized>>
  /\ Goto("realize")
  /\ UNCHANGED <<cfgVars, idle, resVars, decVars, pkt, frame, sw_frame, src, src_fmt,
                 rendered, running, engReady, now, last_present_us, gateVars,
                 everPresented, drainEnd, uses>>

\* --------------------------------------------------- picture realization
\* variant: the picture is never brought to host memory
NeedsTransferNever(wantCuda, fmt) == FALSE

\* the test of line 251
NeedsTransfer(wantCuda, fmt) == wantCuda /\ fmt = "CUDA"

Realize ==
  /\ pc = "realize"
  /\ IF NeedsTransfer(want_cuda, frame.format)
       THEN \/ /\ sw_frame' = FALSE            \* av_hwframe_transfer_data < 0
               /\ frame' = NoFrame
               /\ DropLocals
               /\ failed' = "transfer"
               /\ Goto("receive")
            \/ \E f \in HostFormats :
                 /\ sw_frame' = TRUE
                 /\ src' = "sw_frame"
                 /\ src_fmt' = f
                 /\ rendered' = FALSE
                 /\ Goto("fast")
                 /\ UNCHANGED <<frame, resized, failed>>
       ELSE /\ src' = "frame"
            /\ src_fmt' = frame.format
            /\ rendered' = FALSE
            /\ Goto("fast")
            /\ UNCHANGED <<frame, sw_frame, resized, failed>>
  /\ UNCHANGED <<cfgVars, idle, resVars, decVars, surfVars, pkt, running, engReady, now,
                 last_present_us, wait_ms, slept_ms, gates, gateDropped,
                 presented, everPresented, drainEnd, uses>>

\* the picture src points at: frame itself, or its host copy in sw_frame,
\* which has the dimensions of frame and the layout src_fmt
SrcPic == [w |-> frame.w, h |-> frame.h, format |-> src_fmt]

\* ------------------------------------------------------------ pacing gate
\* elapsed < target_interval_us, with target_interval_us = 1e6 / fps or 0.0
ElapsedLess(elapsed, fps) ==
  IF fps > 0 THEN elapsed * fps < UsPerSec ELSE elapsed < 0

\* the gate is consulted at all (args.target_fps > 0)
PacingOn(fps) == fps > 0

\* variant: the drop-when-ahead preference is read inverted
DoPresentFlipped(elapsed, fps, drop) ==
  ~(PacingOn(fps) /\ ElapsedLess(elapsed, fps) /\ ~drop)

\* variant: the target_fps > 0 test is left out and the interval is taken
\* as 1e6 / fps throughout
DoPresentNoFpsTest(elapsed, fps, drop) ==
  ~(elapsed * fps < UsPerSec /\ drop)

\* do_present after lines 269-279 / 301-311
DoPresent(elapsed, fps, drop) ==
  ~(PacingOn(fps) /\ ElapsedLess(elapsed, fps) /\ drop)

\* wait_ms = (int)((target_interval_us - elapsed)/1000.0), for elapsed < interval
WaitMs(elapsed, fps) == (UsPerSec - elapsed * fps) \div (UsPerMs * fps)

\* the milliseconds passed to SDL_Delay (0 = no call)
SleepMs(wm) == IF wm > 0 /\ wm < WaitCapMs THEN wm ELSE 0

Gate(toPresent, toSkip) ==
  LET elapsed == now - last_present_us
      waits == PacingOn(target_fps) /\ ElapsedLess(elapsed, target_fps)
               /\ ~drop_when_ahead
      wm == IF waits THEN WaitMs(elapsed, target_fps) ELSE -1
      sl == IF waits THEN SleepMs(wm) ELSE 0
      dp == DoPresent(elapsed, target_fps, drop_when_ahead)
  IN /\ gates' = gates + 1
     /\ gateDropped' = (gateDropped \/ ~dp)
     /\ wait_ms' = wm
     /\ slept_ms' = sl
     /\ now' = DelayedNow(now, sl)
     /\ IF dp THEN Goto(toPresent) ELSE Goto(toSkip)
     /\ UNCHANGED <<presented, failed>>

\* last_present_us = now_us() followed by the render calls
Present ==
  /\ last_present_us' = now
  /\ presented' = TRUE
  /\ everPresented' = TRUE
  /\ UNCHANGED <<wait_ms, slept_ms, gates, gateDropped, failed>>

\* break out of the drain loop: the locals die, frame keeps its reference
BreakDrain(why) == DropLocals /\ ResetGate /\ drainEnd' = why

KeepPicture == UNCHANGED <<src, src_fmt, rendered, resized, gateVars, drainEnd>>

\* -------------------------------------------------------------- fast path
\* line 264: the picture takes the NV12 texture path
IsFastFormat(fmt) == fmt = "NV12"

FastPath ==
  /\ pc = "fast"
  /\ IF IsFastFormat(src_fmt)
       THEN IF texNV12 = NoTex
              THEN \E ok \in BOOLEAN :
                     /\ texNV12' = AllocTex(W, H, ok)
                     /\ IF ok THEN Goto("fast_update") /\ KeepPicture
                        ELSE Goto("loop") /\ BreakDrain("tex")
              ELSE Goto("fast_update") /\ KeepPicture /\ UNCHANGED texNV12
       ELSE Goto("slow") /\ KeepPicture /\ UNCHANGED texNV12
  /\ UNCHANGED <<cfgVars, idle, resVars, decVars, W, H, texI420, sws, yuv420p, pkt, frame,
                 sw_frame, running, engReady, now, last_present_us,
                 everPresented, uses>>

FastUpdate ==
  /\ pc = "fast_update"
  /\ \E ok \in BOOLEAN : IF ok THEN Goto("fast_gate") ELSE Goto("slow")
  /\ UNCHANGED <<cfgVars, idle, resVars, decVars, surfVars, pkt, picVars, running, engReady,
                 now, last_present_us, gateVars, everPresented, drainEnd, uses>>

\* where a picture the fast-path gate declined goes next (rendered stays false)
AfterFastDrop == "slow"

FastGate ==
  /\ pc = "fast_gate"
  /\ Gate("fast_present", AfterFastDrop)
  /\ UNCHANGED <<cfgVars, idle, resVars, decVars, surfVars, pkt, picVars, running, engReady,
                 last_present_us, everPresented, drainEnd, uses>>

FastPresent ==
  /\ pc = "fast_present"
  /\ Present
  /\ rendered' = TRUE
  /\ Goto("unref")
  /\ UNCHANGED <<cfgVars, idle, resVars, decVars, surfVars, pkt, frame, sw_frame, src,
                 src_fmt, resized, running, engReady, now, uses, drainEnd>>

\* -------------------------------------------------------------- slow path
SlowPath ==
  /\ pc = "slow"
  /\ IF texI420 = NoTex
       THEN \E ok \in BOOLEAN :
              /\ texI420' = AllocTex(W, H, ok)
              /\ IF ok THEN Goto("slow_sws") /\ KeepPicture
                 ELSE Goto("loop") /\ BreakDrain("tex")
       ELSE Goto("slow_sws") /\ KeepPicture /\ UNCHANGED texI420
  /\ UNCHANGED <<cfgVars, idle, resVars, decVars, W, H, texNV12, sws, yuv420p, pkt, frame,
                 sw_frame, running, engReady, now, last_present_us,
                 everPresented, uses>>

\* swscale accepts only host-resident layouts as source
SwsSupported(fmt) == fmt \in HostFormats

\* lines 293-297: the context in use after the "if (!sws)" block,
\* NoSws when sws_getCachedContext failed
SwsFor(ctx, w, h, fmt, ok) ==
  IF ctx # NoSws THEN ctx
  ELSE IF ok /\ SwsSupported(fmt) THEN [w |-> w, h |-> h, fmt |-> fmt]
  ELSE NoSws

SlowSws ==
  /\ pc = "slow_sws"
  /\ \E ok \in BOOLEAN :
       /\ sws' = SwsFor(sws, W, H, src_fmt, ok)
       /\ IF sws' = NoSws THEN Goto("loop") /\ BreakDrain("sws")
          ELSE Goto("scale") /\ KeepPicture
  /\ UNCHANGED <<cfgVars, idle, resVars, decVars, W, H, texNV12, texI420, yuv420p, pkt,
                 frame, sw_frame, running, engReady, now, last_present_us,
                 everPresented, uses>>

\* sws_scale can only succeed into an allocated destination
ScaleCanSucceed == yuv420p.buf

\* variant: the result of sws_scale is not looked at
ScaleTargetAlways(converted) == "slow_gate"

\* line 300: only a converted picture goes on to the pacing gate
ScaleTarget(converted) == IF converted THEN "slow_gate" ELSE "unref"

Scale ==
  /\ pc = "scale"
  /\ \E ok \in BOOLEAN :
       LET converted == ok /\ ScaleCanSucceed
       IN /\ Goto(ScaleTarget(converted))
          /\ failed' = IF converted THEN failed ELSE "convert"
  /\ UNCHANGED <<cfgVars, idle, resVars, decVars, surfVars, pkt, picVars, running, engReady,
                 now, last_present_us, wait_ms, slept_ms, gates, gateDropped,
                 presented, everPresented, drainEnd, uses>>

SlowGate ==
  /\ pc = "slow_gate"
  /\ Gate("slow_present", "unref")
  /\ UNCHANGED <<cfgVars, idle, resVars, decVars, surfVars, pkt, picVars, running, engReady,
                 last_present_us, everPresented, drainEnd, uses>>

SlowPresent ==
  /\ pc = "slow_present"
  /\ Present
  /\ Goto("unref")
  /\ UNCHANGED <<cfgVars, idle, resVars, decVars, surfVars, pkt, picVars, running, engReady,
                 now, uses, drainEnd>>

Unref ==
  /\ pc = "unref"
  /\ frame' = NoFrame
  /\ DropLocals
  /\ ResetGate
  /\ Goto("receive")
  /\ UNCHANGED <<cfgVars, idle, resVars, decVars, surfVars, pkt, sw_frame, running, engReady,
                 now, last_present_us, everPresented, drainEnd, uses>>

\* ---------------------------------------------------------------- cleanup
\* variant: the renderer is destroyed while the textures still exist
ReleaseOrderRendererFirst(hasSws, hasHw, hasNV12, hasI420) ==
  Buffers
  \o (IF hasSws THEN <<"sws">> ELSE <<>>)
  \o <<"dec", "fmt">>
  \o (IF hasHw THEN <<"hw_dev">> ELSE <<>>)
  \o <<"ren">>
  \o (IF hasNV12 THEN <<"texNV12">> ELSE <<>>)
  \o (IF hasI420 THEN <<"texI420">> ELSE <<>>)
  \o <<"win">>

\* lines 330-342: the order in which cleanup lets the resources go
ReleaseOrder(hasSws, hasHw, hasNV12, hasI420) ==
  Buffers
  \o (IF hasSws THEN <<"sws">> ELSE <<>>)
  \o <<"dec", "fmt">>
  \o (IF hasHw THEN <<"hw_dev">> ELSE <<>>)
  \o (IF hasNV12 THEN <<"texNV12">> ELSE <<>>)
  \o (IF hasI420 THEN <<"texI420">> ELSE <<>>)
  \o <<"ren", "win">>

Cleanup ==
  /\ pc = "cleanup"
  /\ released' = ReleaseOrder(sws # NoSws, hw_dev, texNV12 # NoTex,
                              texI420 # NoTex)
  /\ pkt' = NoPkt
  /\ frame' = NoFrame
  /\ sw_frame' = FALSE
  /\ yuv420p' = NoBuf
  /\ sws' = NoSws
  /\ hw_dev' = FALSE
  /\ texNV12' = NoTex
  /\ texI420' = NoTex
  /\ pc' = "closed"
  /\ exit_code' = 0
  /\ UNCHANGED <<cfgVars, idle, acquired, vstream, cuvid, codec, want_cuda, thread_count, W, H,
                 src, src_fmt, rendered, resized, running, engReady, now,
                 last_present_us, gateVars, everPresented, drainEnd, uses>>

Next ==
  \/ ParseArgs \/ AllocFmt \/ OpenInput \/ FindStreamInfo \/ FindBestStream
  \/ DecoderChoice \/ AllocCodecCtx \/ ParamsToCtx \/ HwDevice \/ Open2
  \/ SdlInit \/ CreateWindow \/ CreateRenderer \/ AllocBuffers \/ Start
  \/ Tick \/ LoopCheck \/ PollEvents \/ ReadFrame \/ Filter \/ SendPacket
  \/ ReceiveFrame \/ DimChange \/ Realize \/ FastPath \/ FastUpdate
  \/ FastGate \/ FastPresent \/ SlowPath \/ SlowSws \/ Scale \/ SlowGate
  \/ SlowPresent \/ Unref \/ Cleanup

Spec == Init /\ [][Next]_vars

\* the steps of the program itself: everything but the passing of time
Driver ==
  \/ ParseArgs \/ AllocFmt \/ OpenInput \/ FindStreamInfo \/ FindBestStream
  \/ DecoderChoice \/ AllocCodecCtx \/ ParamsToCtx \/ HwDevice \/ Open2
  \/ SdlInit \/ CreateWindow \/ CreateRenderer \/ AllocBuffers \/ Start
  \/ LoopCheck \/ PollEvents \/ ReadFrame \/ Filter \/ SendPacket
  \/ ReceiveFrame \/ DimChange \/ Realize \/ FastPath \/ FastUpdate
  \/ FastGate \/ FastPresent \/ SlowPath \/ SlowSws \/ Scale \/ SlowGate
  \/ SlowPresent \/ Unref \/ Cleanup

\* main is one sequential thread and every call it makes returns, so its
\* next statement is eventually executed; which outcome a call has is left
\* open
\* the epoch of the steady clock is arbitrary: the fair behaviours are
\* explored from a later reading, which leaves room for one pacing interval
LiveInit == InitAt(MaxTime \div 2)

LiveSpec == LiveInit /\ [][Next]_vars /\ WF_vars(Driver)

\* av_read_frame hands over a unit of the selected stream
ReadSelected == ReadFrame /\ pkt' # NoPkt /\ pkt'.stream_index = vstream

\* avcodec_send_packet takes the unit while the engine holds no output
AcceptWhenDrained == SendPacket /\ engReady = 0 /\ pc' = "receive"

\* avcodec_receive_frame hands over a picture the engine holds
ReceivePicture == ReceiveFrame /\ pc' = "dimcheck"

\* the environment cooperates: units of the selected stream keep arriving,
\* an engine whose output has been retrieved accepts a submission, and an
\* engine that holds a picture hands it over when asked; the engine may keep
\* rejecting submissions as long as its output has not been retrieved
\* (AVERROR(EAGAIN) of avcodec_send_packet)
FairSpec ==
  /\ LiveInit /\ [][Next]_vars
  /\ WF_vars(Driver)
  /\ SF_vars(ReadSelected)
  /\ SF_vars(AcceptWhenDrained)
  /\ SF_vars(ReceivePicture)

\* what main acquires: in setup (lines 78-198) and lazily in the loop
Resources == {"fmt", "dec", "hw_dev", "win", "ren", "pkt", "frame",
              "sw_frame", "yuv420p", "texNV12", "texI420", "sws"}

TypeOK ==
  /\ pc \in SetupPcs \cup StreamingPcs \cup {"cleanup", "closed", "exited"}
  /\ exit_code \in {-1, 0, 1}
  /\ idle \in BOOLEAN
  /\ acquired \in Seq(Resources)
  /\ released \in Seq(Resources)
  /\ now \in 0 .. (MaxTime + WaitCapMs * UsPerMs)
  /\ last_present_us \in 0 .. now
  /\ engReady \in 0 .. MaxReady
  /\ gates \in 0 .. 2
  /\ uses \in 0 .. 1
  /\ everPresented \in BOOLEAN

\* ================================================================ claims

\* the decoder has been selected and configured (lines 104-149 are done)
DecoderSelected ==
  pc \in {"open2", "sdl_init", "create_window", "create_renderer",
          "alloc_buffers", "start"} \cup StreamingPcs

\* a hardware acquisition step failed: engine not found or no device
HwAcquisitionFailed == prefer_gpu /\ (~cuvid \/ ~hw_dev)

\* C1: after any hardware-acquisition failure (hardware engine not found, or
\* device creation failed) the selected engine is the generic software one,
\* the accelerator-resident flag is false and thread_count is the minimum.
C1_FallbackSelectsSoftware ==
  (DecoderSelected /\ HwAcquisitionFailed)
    => (codec = "h264" /\ ~want_cuda /\ thread_count = 1)

\* C2: with drop-when-ahead and an interval T > 0, every presentation happens
\* at least T after the last-presentation timestamp recorded before it
\* ((now - last_present_us) >= 1e6 / target_fps).
C2_MinSpacing ==
  [][(target_fps > 0 /\ drop_when_ahead /\ ~presented /\ presented')
       => (now' - last_present_us) * target_fps >= UsPerSec]_vars

\* a second presentation is about to be made under drop-when-ahead pacing
C2_Witness ==
  /\ pc \in {"fast_present", "slow_present"}
  /\ target_fps > 0 /\ drop_when_ahead
  /\ everPresented
  /\ last_present_us > 0

\* C3: a picture the pacing gate has dropped (interval non-zero,
\* drop-when-ahead set, elapsed < interval) is never presented by any path.
C3_DroppedNeverPresented ==
  (target_fps > 0 /\ drop_when_ahead /\ gateDropped) => ~presented

\* C4 (as stated): in free-run mode every realized picture whose drain
\* iteration completes has been presented.
C4_EveryRealizedPresented ==
  (target_fps = 0 /\ pc = "unref") => presented

\* C4 (amended): in free-run mode the gate never drops and never waits, and
\* every picture that reaches the gate is presented in the same iteration,
\* whatever the elapsed time and the drop-when-ahead preference.
C4_FreeRunGateAlwaysPresents ==
  (target_fps = 0) =>
     /\ ~gateDropped
     /\ wait_ms = -1 /\ slept_ms = 0
     /\ gates <= 1
     /\ (pc = "unref" /\ gates > 0) => presented
     /\ (pc \in {"fast_present", "slow_present"}) => gates = 1

\* free-run with drop-when-ahead set: a picture presented right after another
C4_Witness ==
  /\ target_fps = 0 /\ drop_when_ahead
  /\ pc = "unref" /\ gates = 1 /\ presented
  /\ last_present_us = now

\* C5: with T > 0 and drop-when-ahead the first realized picture of a run
\* (no presentation made yet) is not dropped by the gate.
C5_FirstPictureNotDropped ==
  (target_fps > 0 /\ drop_when_ahead /\ ~everPresented) => ~gateDropped

Min(a, b) == IF a < b THEN a ELSE b

\* C6: in the wait branch the sleep is the remaining deficit capped at the
\* bound: slept = min(deficit, cap) for every deficit > 0.
C6_SleepIsCappedDeficit ==
  (wait_ms > 0) => slept_ms = Min(wait_ms, WaitCapMs)

\* C7: whenever a texture, the converted-output buffer or the conversion
\* context is used for a picture, its dimensions are the picture's.
C7_DimensionSafety ==
  /\ (pc \in {"fast_update", "fast_gate", "fast_present"})
       => texNV12 = [w |-> SrcPic.w, h |-> SrcPic.h]
  /\ (pc = "scale")
       => /\ sws # NoSws
          /\ sws.w = SrcPic.w /\ sws.h = SrcPic.h
          /\ yuv420p.buf => (yuv420p.w = SrcPic.w /\ yuv420p.h = SrcPic.h)
  /\ (pc \in {"slow_gate", "slow_present"})
       => /\ texI420 = [w |-> SrcPic.w, h |-> SrcPic.h]
          /\ yuv420p = [w |-> SrcPic.w, h |-> SrcPic.h, buf |-> TRUE]

\* a picture of new dimensions is about to be presented through a recreated
\* I420 texture
C7_Witness ==
  /\ resized
  /\ pc = "slow_present"
  /\ texI420 = [w |-> frame.w, h |-> frame.h]

\* the surfaces of the size (w, h), allocated or not
SizedOrNone(tex, none, w, h) == tex = none \/ (tex.w = w /\ tex.h = h)

\* C8: a picture of new dimensions makes the handler destroy and recreate
\* every allocated surface and drop the conversion context before the
\* picture goes on; a picture of the same dimensions changes none of them,
\* and no other step replaces an allocated surface, buffer or context.
C8_RecreatedOncePerChange ==
  [][/\ (pc = "dimcheck" /\ pc' = "realize" /\ (frame.w # W \/ frame.h # H))
          => /\ W' = frame.w /\ H' = frame.h
             /\ sws' = NoSws
             /\ (texNV12 = NoTex) => (texNV12' = NoTex)
             /\ (texI420 = NoTex) => (texI420' = NoTex)
             /\ SizedOrNone(texNV12', NoTex, frame.w, frame.h)
             /\ SizedOrNone(texI420', NoTex, frame.w, frame.h)
             /\ SizedOrNone(yuv420p', NoBuf, frame.w, frame.h)
     /\ (pc = "dimcheck" /\ frame.w = W /\ frame.h = H)
          => UNCHANGED surfVars
     /\ (pc \in StreamingPcs /\ pc # "dimcheck")
          => /\ UNCHANGED <<W, H, yuv420p>>
             /\ (texNV12 # NoTex) => (texNV12' = texNV12)
             /\ (texI420 # NoTex) => (texI420' = texI420)
             /\ (sws # NoSws) => (sws' = sws)
    ]_vars

\* the handler has just recreated both textures for a picture of new size
C8_Witness ==
  /\ resized
  /\ pc = "realize"
  /\ sws = NoSws
  /\ texNV12 = [w |-> frame.w, h |-> frame.h]
  /\ texI420 = [w |-> frame.w, h |-> frame.h]

\* C9: whenever a conversion runs on a picture, the live context was built
\* for that picture's source layout and dimensions.
C9_ContextMatchesSource ==
  (pc = "scale") =>
     sws = [w |-> SrcPic.w, h |-> SrcPic.h, fmt |-> src_fmt]

\* C10: the driver holds a compressed unit only between its read and its
\* single consumption (discard or submission); the unit is released before
\* the next read, and rejected units are not kept.
C10_NoBacklog ==
  /\ [](/\ (pc \in StreamingPcs \ {"filter", "send"}) => pkt = NoPkt
        /\ (pc \in {"filter", "send"}) => (pkt # NoPkt /\ uses = 0)
        /\ uses <= 1)
  /\ [][(pc \in {"filter", "send"} /\ pc' \notin {"filter", "send"})
          => (uses' = 1 /\ pkt' = NoPkt)]_vars

\* a unit has been consumed and released, the next read is about to happen
C10_Witness ==
  /\ pc = "read"
  /\ uses = 1
  /\ pkt = NoPkt
  /\ engReady > 0

\* C11: when the next compressed unit is read, the engine holds no ready
\* picture that the driver has not retrieved, unless the last drain was
\* ended by an engine fault; in particular after a drain that an allocation
\* failure ended.
C11_DrainedBeforeNextRead ==
  (pc = "read" /\ drainEnd # "fault") => engReady = 0

\* C12: a picture whose accelerator-to-host transfer or whose conversion
\* fails is dropped without retry: nothing is presented for it, the
\* last-presentation timestamp and the engine's remaining pictures are left
\* alone, and the driver goes on to the next avcodec_receive_frame of the
\* same drain.
C12_FailureCostsOnePicture ==
  /\ [](/\ (failed = "transfer")
             => (pc = "receive" /\ frame = NoFrame /\ ~presented)
        /\ (failed = "convert") => (pc = "unref" /\ ~presented))
  /\ [][/\ (failed = "none" /\ failed' # "none")
             => UNCHANGED <<last_present_us, engReady, running>>
        /\ (failed = "convert" /\ pc' # pc)
             => (pc' = "receive" /\ frame' = NoFrame
                 /\ UNCHANGED <<last_present_us, engReady, running>>)
       ]_vars

\* a transfer has failed and the drain goes on with a picture still ready
C12_Witness ==
  /\ failed = "transfer"
  /\ pc = "receive"
  /\ engReady > 0

\* C13: in STREAMING no non-fatal event (would_block from ingest, a unit of
\* an unselected stream, a rejected submission, an engine fault or
\* end-of-stream in the drain, a transfer failure, a conversion failure, a
\* pacing drop) leaves STREAMING or changes the exit code; each of them leads
\* back to the loop head, from where a running driver polls and reads the
\* next compressed unit.
C13_NonFatalStaysLocal ==
  [][(pc \in StreamingPcs) =>
       /\ exit_code' = exit_code
       /\ (pc' \in StreamingPcs
             \/ (pc = "loop" /\ ~running /\ pc' = "cleanup"))
       /\ (pc = "read" /\ pc' # pc) => pc' \in {"loop", "filter"}
       /\ (pc = "filter" /\ pkt.stream_index # vstream /\ pc' # pc)
            => pc' = "loop"
       /\ (pc = "send" /\ pc' \notin {pc, "receive"}) => pc' = "loop"
       /\ (pc = "receive" /\ pc' \notin {pc, "dimcheck"}) => pc' = "loop"
       /\ (failed = "none" /\ failed' = "transfer") => pc' = "receive"
       /\ (failed = "none" /\ failed' = "convert") => pc' = "unref"
       /\ (~gateDropped /\ gateDropped') => pc' \in {"slow", "unref"}
       /\ (pc = "unref" /\ pc' # pc) => pc' = "receive"
       /\ (pc = "loop" /\ running /\ pc' # pc) => pc' = "poll"
       /\ (pc = "poll" /\ pc' # pc) => pc' = "read"]_vars

\* the drain was ended by an engine fault and the running driver is about to
\* read the next unit
C13_Witness ==
  /\ pc = "read"
  /\ drainEnd = "fault"
  /\ running

\* C14: a failed allocation is fatal: the exit code is 0 only after a clean
\* shutdown (or a usage request), and a run in which the allocation of a
\* presentation surface failed ends with exit code 1, also when the surface
\* is allocated lazily inside the loop.
C14_AllocationFailureIsFatal ==
  /\ (exit_code = 0) => pc \in {"closed", "exited"}
  /\ (exit_code = 1) => pc = "exited"
  /\ (pc = "closed" /\ drainEnd = "tex") => exit_code = 1

\* C15: the stop signal is polled once per outer loop iteration (running is
\* cleared only by the event poll, which every iteration of a running loop
\* passes); once it has been observed the driver eventually reaches CLOSED
\* with exit code 0 whatever the ingest and the engine do; the loop is left
\* only at its head, where the picture of the last drain iteration has been
\* unreferenced or was dropped by a break, and CLOSED holds no picture.
C15_StopLeadsToClosed ==
  /\ [][/\ (running /\ ~running') => (pc = "poll" /\ pc' = "read")
        /\ (pc = "loop" /\ running /\ pc' # pc) => pc' = "poll"
        /\ (pc' = "cleanup" /\ pc # "cleanup")
             => (pc = "loop" /\ ~running
                 /\ (frame = NoFrame \/ drainEnd \in {"tex", "sws"}))
        /\ (pc' = "closed") => (frame' = NoFrame /\ ~sw_frame')
       ]_vars
  /\ (pc \in StreamingPcs /\ ~running) ~> (pc = "closed" /\ exit_code = 0)

\* the stop was observed in the middle of work: a picture is in flight
C15_Witness ==
  /\ ~running
  /\ pc = "fast_gate"
  /\ frame # NoFrame

\* position of resource r in the sequence q, 0 when it is not there
Pos(q, r) ==
  IF \E i \in 1 .. Len(q) : q[i] = r
    THEN CHOOSE i \in 1 .. Len(q) : q[i] = r
    ELSE 0

\* where q lets go of both r and s, r comes first
Before(q, r, s) == (Pos(q, r) > 0 /\ Pos(q, s) > 0) => Pos(q, r) < Pos(q, s)

\* created on demand inside the loop, hence after everything setup acquired
Lazy == {"texNV12", "texI420", "sws"}

\* C16 (as stated): cleanup releases in reverse-acquisition order: of two
\* resources the one acquired later is released first.
C16_ReverseAcquisitionOrder ==
  (pc = "closed") =>
    /\ \A i, j \in 1 .. Len(acquired) :
         (i < j) => Pos(released, acquired[j]) < Pos(released, acquired[i])
    /\ \A i \in 1 .. Len(acquired) : \A l \in Lazy :
         (Pos(released, l) > 0) => Pos(released, l) < Pos(released, acquired[i])

\* C16 (amended): cleanup releases every resource acquired in setup and every
\* texture and conversion context that exists at that moment, each exactly
\* once, and in an order in which no resource outlives one it was made from
\* or is used by: the buffers and the conversion context before the decoder
\* context, the decoder context before the accelerator device, the textures
\* before the renderer, the renderer before the window.
C16_ReleaseRespectsDependencies ==
  /\ [](pc = "closed" =>
         /\ \A i, j \in 1 .. Len(released) :
              (released[i] = released[j]) => i = j
         /\ \A i \in 1 .. Len(acquired) : Pos(released, acquired[i]) > 0
         /\ \A r \in {"pkt", "frame", "sw_frame", "yuv420p", "sws"} :
              Before(released, r, "dec")
         /\ Pos(released, "dec") > 0
         /\ Before(released, "dec", "fmt")
         /\ Before(released, "dec", "hw_dev")
         /\ Before(released, "texNV12", "ren")
         /\ Before(released, "texI420", "ren")
         /\ Pos(released, "ren") > 0
         /\ Before(released, "ren", "win")
         /\ Pos(released, "win") > 0)
  /\ [][(pc = "cleanup" /\ pc' = "closed") =>
          /\ (texNV12 # NoTex) <=> (Pos(released', "texNV12") > 0)
          /\ (texI420 # NoTex) <=> (Pos(released', "texI420") > 0)
          /\ (sws # NoSws) <=> (Pos(released', "sws") > 0)
          /\ hw_dev <=> (Pos(released', "hw_dev") > 0)]_vars

\* a run that held the accelerator device, both textures and a conversion
\* context has been closed
C16_Witness ==
  /\ pc = "closed"
  /\ Pos(released, "hw_dev") > 0
  /\ Pos(released, "texNV12") > 0
  /\ Pos(released, "texI420") > 0
  /\ Pos(released, "sws") > 0

\* the steps of one drain iteration that follow picture realization
PresentationPcs == {"fast", "fast_update", "fast_gate", "fast_present", "slow",
                    "slow_sws", "scale", "slow_gate", "slow_present"}

SlowPcs == {"slow", "slow_sws", "scale", "slow_gate", "slow_present"}

\* C18: one strategy per picture: a picture whose realized layout is NV12 is
\* handled by the fast path alone and never enters the conversion path, also
\* when the fast path dropped it by pacing or its texture update failed.
C18_OneStrategyPerPicture ==
  (pc \in SlowPcs) => ~IsFastFormat(src_fmt)

\* C19: STREAMING is left only after a stop signal: a negative av_read_frame
\* (end of stream included) only sleeps and goes back to the loop head with
\* running untouched, running is cleared by nothing but the event poll, and
\* while it is set no step leaves STREAMING.
C19_OnlyStopLeavesStreaming ==
  /\ [](pc \in {"cleanup", "closed"} => ~running)
  /\ [][/\ (pc \in StreamingPcs /\ running) => pc' \in StreamingPcs
        /\ (pc = "read" /\ pc' = "loop")
             => (running' = running /\ idle' /\ pkt' = NoPkt
                 /\ engReady' = engReady)
        /\ (pc # "poll") => (running => running')
       ]_vars

\* a read has failed and the driver, still running, is back at the loop head
C19_Witness ==
  /\ pc = "loop"
  /\ running
  /\ idle

\* C20: progress after rejection: while the driver runs, a picture that the
\* engine holds ready is eventually retrieved by avcodec_receive_frame.
C20_ReadyPictureIsRetrieved ==
  (pc \in StreamingPcs /\ engReady > 0) ~> (pc = "dimcheck" \/ ~running)

====
